---- MODULE Spec2Model ----
(***************************************************************************)
(* The pronounceable password generator (PasswordGenerator: normal,        *)
(* strong, super_strong) and the pattern verifier that re-splits its       *)
(* output (Clinkey/verification_patterns.py).                              *)
(*                                                                         *)
(* A string is a sequence of one-character strings.  The pseudo-random     *)
(* source is a cyclic tape of uniform draws: the k-th draw of the process  *)
(* is tape[(k % TapeLen) + 1], a level in 0 .. DrawLevels-1 that is scaled *)
(* to the requested range the way int(random() * n) scales it.             *)
(*                                                                         *)
(* The other tools of the package each have their own variables and their  *)
(* own specification: concurrent generator calls (SpecConc), the PDF       *)
(* converter (SpecPdf), the favicon converter (SpecFavicon), the language  *)
(* identifier (SpecLang) and the project exporter (SpecExport).  In each   *)
(* specification the variables of the other tools stay at rest.            *)
(***************************************************************************)
EXTENDS Integers, Sequences, FiniteSets, TLC

VARIABLES
  \* The generator and its last call.
  cfg, tape, pos, pc, tier, error, password, blocks, draws,
  \* Concurrent calls: control and workspace of each call, the shared
  \* source, the scheduler's record.
  ctl, ws, rng, sched,
  \* The PDF converter: the files on disk, the importable libraries, the
  \* record of the last call.
  disk, libs, pdfc,
  \* The favicon converter: the image files on disk, whether Pillow can be
  \* imported, the record of the last call.
  images, pillow, favc,
  \* The language identifier: the record of the last call.
  langc,
  \* The project exporter: the project directory, the record of the last
  \* call.
  fs, expc

genVars == <<cfg, tape, pos, pc, tier, error, password, blocks, draws>>

concVars == <<ctl, ws, rng, sched>>

pdfVars == <<disk, libs, pdfc>>

favVars == <<images, pillow, favc>>

langVars == <<langc>>

expVars == <<fs, expc>>

vars == <<genVars, concVars, pdfVars, favVars, langVars, expVars>>

(* Bounds of the pseudo-random source. *)
TapeLen == 3
DrawLevels == 6

\* The number of times the scheduler may pre-empt a call that has not
\* returned.
MaxPreemptions == 1

----------------------------------------------------------------------------
(* Character classes of the verifier's regular expressions. *)

Range(s) == {s[i] : i \in 1..Len(s)}

\* r'[-_.|]'
SeparatorClass == {"-", "_", ".", "|"}

\* r'\d+'
DigitClass == {"0", "1", "2", "3", "4", "5", "6", "7", "8", "9"}

LowerLetters ==
  <<"a", "b", "c", "d", "e", "f", "g", "h", "i", "j", "k", "l", "m",
    "n", "o", "p", "q", "r", "s", "t", "u", "v", "w", "x", "y", "z">>

UpperLetters ==
  <<"A", "B", "C", "D", "E", "F", "G", "H", "I", "J", "K", "L", "M",
    "N", "O", "P", "Q", "R", "S", "T", "U", "V", "W", "X", "Y", "Z">>

\* r'^[A-Za-z]+$'
LetterClass == Range(LowerLetters) \cup Range(UpperLetters)

\* r'[!@#$%^&*()_+\-=\[\]{}|\\:;"\'<>?,./~`ùàéèç]', in the order written.
\* The grave accent is written "GRAVE": a bare one opens a quotation for
\* the TLA+ lexer.
SpecialChars ==
  <<"!", "@", "#", "$", "%", "^", "&", "*", "(", ")", "_", "+", "-", "=",
    "[", "]", "{", "}", "|", "\\", ":", ";", "\"", "'", "<", ">", "?", ",",
    ".", "/", "~", "GRAVE", "ù", "à", "é", "è", "ç">>

SpecialCharClass == Range(SpecialChars)

\* The accented letters of the model's alphabet, lower case then upper case.
AccentedLower == <<"ù", "à", "é", "è", "ç">>
AccentedUpper == <<"Ù", "À", "É", "È", "Ç">>

\* str.isalpha(): a letter, accented or not.
AlphaClass == LetterClass \cup Range(AccentedLower) \cup Range(AccentedUpper)

----------------------------------------------------------------------------
(* The verifier's functions of the generated string. *)

RECURSIVE SplitFrom(_, _, _)
\* The parts of s[i..], cur being the part read so far.
SplitFrom(s, i, cur) ==
  IF i > Len(s) THEN <<cur>>
  ELSE IF s[i] \in SeparatorClass
       THEN <<cur>> \o SplitFrom(s, i + 1, <<>>)
       ELSE SplitFrom(s, i + 1, Append(cur, s[i]))

\* re.split(r'[-_.|]', password): empty parts are kept.
Split(s) == SplitFrom(s, 1, <<>>)

\* re.match(r'^[A-Za-z]+$', part)
LettersOnly(part) == Len(part) > 0 /\ \A i \in 1..Len(part) : part[i] \in LetterClass

\* re.match(r'^\d+$', part)
DigitsOnly(part) == Len(part) > 0 /\ \A i \in 1..Len(part) : part[i] \in DigitClass

\* re.findall(special class, password): the special characters, in order.
FindSpecial(s) == SelectSeq(s, LAMBDA c : c \in SpecialCharClass)

RECURSIVE FindNumbersFrom(_, _, _)
FindNumbersFrom(s, i, cur) ==
  IF i > Len(s) THEN (IF cur = <<>> THEN <<>> ELSE <<cur>>)
  ELSE IF s[i] \in DigitClass
       THEN FindNumbersFrom(s, i + 1, Append(cur, s[i]))
       ELSE (IF cur = <<>> THEN <<>> ELSE <<cur>>) \o FindNumbersFrom(s, i + 1, <<>>)

\* re.findall(r'\d+', password): the maximal runs of digits.
FindNumbers(s) == FindNumbersFrom(s, 1, <<>>)

----------------------------------------------------------------------------
(* The generator's candidate lists and defaults. *)

Consonants ==
  <<(<<"b">>), (<<"d">>), (<<"l">>), (<<"m">>),
    (<<"t", "r">>), (<<"c", "h">>), (<<"b", "r">>)>>

Vowels == <<"a", "e", "i", "o", "u", "é">>

Digits == <<"0", "1", "2", "3", "4", "5", "6", "7", "8", "9">>

Separators == <<"-", "_", ".", "|">>

CaseTransforms == <<"upper", "capitalize", "lower">>

MinSyllables == 2
MaxSyllables == 4
MinDigits == 2
MaxDigits == 6
MinSymbols == 1
MaxSymbols == 2

DefaultConfig ==
  [minSyllables |-> MinSyllables, maxSyllables |-> MaxSyllables,
   minDigits |-> MinDigits, maxDigits |-> MaxDigits,
   separators |-> Separators, specials |-> SpecialChars]

\* The tiers' patterns of block kinds.
NormalPattern == <<"Word", "Word", "Word", "Word">>
\* The strong pattern with its second and third kinds exchanged.
StrongPatternSwapped == <<"Word", "Word", "Digits", "Digits", "Word", "Digits">>

StrongPattern == <<"Word", "Digits", "Word", "Digits", "Word", "Digits">>
\* The super_strong pattern with the digits ahead of the symbols.
SuperStrongPatternDigitsFirst ==
  <<"Word", "Digits", "Symbol", "Word", "Digits", "Symbol", "Word">>

SuperStrongPattern ==
  <<"Word", "Symbol", "Digits", "Word", "Symbol", "Digits", "Word">>

Pattern(t) ==
  CASE t = "normal" -> NormalPattern
    [] t = "strong" -> StrongPattern
    [] t = "super_strong" -> SuperStrongPattern

Tiers == {"normal", "strong", "super_strong"}

----------------------------------------------------------------------------
(* The pseudo-random source. *)

Seeds == [1..TapeLen -> 0..(DrawLevels - 1)]

\* The k-th draw (k counted from 0) of the source: the tape is read
\* cyclically.
Draw(tp, k) == tp[(k % Len(tp)) + 1]

\* choice(list): the element a uniform level selects.
Choice(list, v) == list[((v * Len(list)) \div DrawLevels) + 1]

\* randint(a, b): a value of the closed range a..b.
RandInt(a, b, v) == a + ((v * (b - a + 1)) \div DrawLevels)

----------------------------------------------------------------------------
(* Casing. *)

IndexOf(list, c) == CHOOSE i \in 1..Len(list) : list[i] = c

\* str.upper() of one character.
UpperChar(c) ==
  IF c \in Range(LowerLetters) THEN UpperLetters[IndexOf(LowerLetters, c)]
  ELSE IF c \in Range(AccentedLower) THEN AccentedUpper[IndexOf(AccentedLower, c)]
  ELSE c

Upper(s) == [i \in 1..Len(s) |-> UpperChar(s[i])]

\* str.lower() of one character.
LowerChar(c) ==
  IF c \in Range(UpperLetters) THEN LowerLetters[IndexOf(UpperLetters, c)]
  ELSE IF c \in Range(AccentedUpper) THEN AccentedLower[IndexOf(AccentedUpper, c)]
  ELSE c

Lower(s) == [i \in 1..Len(s) |-> LowerChar(s[i])]

\* A casing whose capitalize keeps the first letter only.
ApplyCaseTruncating(tr, w) ==
  CASE tr = "upper" -> Upper(w)
    [] tr = "capitalize" -> <<UpperChar(w[1])>>
    [] tr = "lower" -> w

\* The casing transform of a word.
ApplyCase(tr, w) ==
  CASE tr = "upper" -> Upper(w)
    [] tr = "capitalize" ->
         [i \in 1..Len(w) |-> IF i = 1 THEN UpperChar(w[i]) ELSE w[i]]
    [] tr = "lower" -> w

----------------------------------------------------------------------------
(* Block generation.  Every generator returns the text it built and the    *)
(* index k of the next unread draw.                                        *)

RECURSIVE GenSyllables(_, _, _, _)
\* n more syllables after acc: a consonant unit then a vowel, each drawn
\* from its list.
GenSyllables(tp, k, n, acc) ==
  IF n <= 0 THEN [text |-> acc, k |-> k]
  ELSE GenSyllables(tp, k + 2, n - 1,
                    acc \o Choice(Consonants, Draw(tp, k))
                        \o <<Choice(Vowels, Draw(tp, k + 1))>>)

\* The casing drawn for the syllables syl.
CaseWord(tp, syl) ==
  [text |-> ApplyCase(Choice(CaseTransforms, Draw(tp, syl.k)), syl.text),
   k |-> syl.k + 1]

\* A word: a syllable count in the configured range, the syllables, a casing.
GenWord(c, tp, k) ==
  CaseWord(tp, GenSyllables(tp, k + 1,
                            RandInt(c.minSyllables, c.maxSyllables, Draw(tp, k)),
                            <<>>))

RECURSIVE GenChars(_, _, _, _, _)
\* n more characters after acc, drawn with replacement from list.
GenChars(list, tp, k, n, acc) ==
  IF n <= 0 THEN [text |-> acc, k |-> k]
  ELSE GenChars(list, tp, k + 1, n - 1, Append(acc, Choice(list, Draw(tp, k))))

\* A digit block whose length range is one too long.
GenDigitsOffByOne(c, tp, k) ==
  GenChars(Digits, tp, k + 1,
           RandInt(c.minDigits, c.maxDigits + 1, Draw(tp, k)), <<>>)

\* A digit block: a length in the configured range, then that many digits.
GenDigits(c, tp, k) ==
  GenChars(Digits, tp, k + 1,
           RandInt(c.minDigits, c.maxDigits, Draw(tp, k)), <<>>)

\* A symbol block: 1 or 2 characters of the special set.
GenSymbols(c, tp, k) ==
  GenChars(c.specials, tp, k + 1,
           RandInt(MinSymbols, MaxSymbols, Draw(tp, k)), <<>>)

GenBlock(kind, c, tp, k) ==
  CASE kind = "Word" -> GenWord(c, tp, k)
    [] kind = "Digits" -> GenDigits(c, tp, k)
    [] kind = "Symbol" -> GenSymbols(c, tp, k)

\* The block list acc with the generated block b appended.
AddBlock(acc, b) == [blocks |-> Append(acc.blocks, b.text), k |-> b.k]

RECURSIVE GenBlocks(_, _, _, _, _)
\* The blocks of pattern pat from position i on, each generated in turn
\* and appended to acc.
GenBlocks(pat, c, tp, i, acc) ==
  IF i > Len(pat) THEN acc
  ELSE GenBlocks(pat, c, tp, i + 1, AddBlock(acc, GenBlock(pat[i], c, tp, acc.k)))

RECURSIVE JoinTrailing(_, _, _, _, _)
\* A join that draws a separator after every block, the last included.
JoinTrailing(bs, c, tp, i, acc) ==
  IF i > Len(bs) THEN acc
  ELSE JoinTrailing(bs, c, tp, i + 1,
                    [text |-> acc.text \o bs[i]
                                       \o <<Choice(c.separators, Draw(tp, acc.k))>>,
                     k |-> acc.k + 1])

RECURSIVE Join(_, _, _, _, _)
\* The blocks bs[i..] joined to acc: a separator is drawn before each
\* junction, none before the first block and none after the last.
Join(bs, c, tp, i, acc) ==
  IF i > Len(bs) THEN acc
  ELSE IF i = 1
       THEN Join(bs, c, tp, i + 1, [text |-> bs[i], k |-> acc.k])
       ELSE Join(bs, c, tp, i + 1,
                 [text |-> acc.text \o <<Choice(c.separators, Draw(tp, acc.k))>>
                                    \o bs[i],
                  k |-> acc.k + 1])

\* The result of a call: the joined text j of the generated blocks g.
Result(g, j) == [text |-> j.text, blocks |-> g.blocks, k |-> j.k]

\* The joined text of the generated blocks g.
JoinBlocks(c, tp, g) ==
  Result(g, Join(g.blocks, c, tp, 1, [text |-> <<>>, k |-> g.k]))

\* Assembly: the block list of the tier's pattern, then the join.
Assemble(t, c, tp, k) ==
  JoinBlocks(c, tp, GenBlocks(Pattern(t), c, tp, 1, [blocks |-> <<>>, k |-> k]))

----------------------------------------------------------------------------
(* Configuration. *)

\* A range check with its bounds exchanged.
RangeOkSwapped(lo, hi) == 0 <= hi /\ hi <= lo

RangeOk(lo, hi) == 0 <= lo /\ lo <= hi

\* The kinds of block a tier's pattern needs.
Needs(t, kind) == \E i \in 1..Len(Pattern(t)) : Pattern(t)[i] = kind

\* A validation that checks the character sets and forgets the ranges.
ValidSetsOnly(c, t) ==
  /\ Len(c.separators) > 0
  /\ (t = "super_strong" => Len(c.specials) > 0)

\* A configuration the tier can generate from.
Valid(c, t) ==
  /\ RangeOk(c.minSyllables, c.maxSyllables)
  /\ RangeOk(c.minDigits, c.maxDigits)
  /\ Len(c.separators) > 0
  /\ (Needs(t, "Symbol") => Len(c.specials) > 0)

\* The configurations a generator is constructed with.
Configs ==
  { DefaultConfig,
    [DefaultConfig EXCEPT !.minDigits = 1, !.maxDigits = 3],
    [DefaultConfig EXCEPT !.minSyllables = 3, !.maxSyllables = 2],
    [DefaultConfig EXCEPT !.minDigits = 4, !.maxDigits = 3],
    [DefaultConfig EXCEPT !.minDigits = -2, !.maxDigits = -1],
    [DefaultConfig EXCEPT !.specials = <<>>],
    [DefaultConfig EXCEPT !.separators = <<>>] }

----------------------------------------------------------------------------
(* The tools at rest: the value of each tool's variables in the            *)
(* specifications of the other tools.                                      *)

\* The calls that may run concurrently.
Calls == {1, 2}

\* A call that has not been entered.
IdleCall ==
  [tier |-> "none", phase |-> "idle", i |-> 0, n |-> 0, j |-> 0,
   own |-> <<>>, password |-> <<>>]

\* The workspace of a call before its first block.
EmptyWorkspace == [cur |-> <<>>, blocks |-> <<>>, text |-> <<>>]

GenRest ==
  /\ cfg = DefaultConfig
  /\ tape = [i \in 1..TapeLen |-> 0]
  /\ pos = 0
  /\ pc = "idle"
  /\ tier = "none"
  /\ error = "none"
  /\ password = <<>>
  /\ blocks = <<>>
  /\ draws = 0

ConcRest ==
  /\ ctl = [c \in Calls |-> IdleCall]
  /\ ws = [c \in Calls |-> EmptyWorkspace]
  /\ rng = 0
  /\ sched = [last |-> 0, preemptions |-> 0]

\* No output path given (None).
NoPath == [some |-> FALSE, path |-> <<>>]

\* The output path p.
SomePath(p) == [some |-> TRUE, path |-> p]

\* No call of the converter made yet.
NoPdfCall ==
  [op |-> "none", input |-> <<>>, given |-> NoPath, output |-> NoPath,
   called |-> FALSE,
   raised |-> "none", message |-> "none", invoked |-> <<>>,
   printed |-> FALSE, outcome |-> "none"]

PdfRest ==
  /\ disk = {}
  /\ libs = {}
  /\ pdfc = NoPdfCall

\* sizes=None
NoSizes == [some |-> FALSE, list |-> <<>>]

\* No call of the favicon converter made yet.
NoFavCall ==
  [op |-> "none", input |-> <<>>, output |-> <<>>, sizes |-> NoSizes,
   raised |-> "none", opened |-> FALSE, saved |-> <<>>, printed |-> FALSE]

FavRest ==
  /\ images = {}
  /\ pillow = FALSE
  /\ favc = NoFavCall

\* No call of get_language_identifier made yet.
NoLangCall == [op |-> "none", filename |-> <<>>, result |-> "none"]

LangRest == langc = NoLangCall

\* An empty project directory.
EmptyProject ==
  [dirs |-> {}, files |-> {}, order |-> <<>>, undecodable |-> {},
   unreadable |-> {}, extra |-> {}]

\* No call of the exporter made yet.
NoExportCall ==
  [op |-> "none", root_dir |-> <<>>, exclude |-> {}, levels |-> <<>>,
   lines |-> <<>>, sections |-> <<>>, skipped |-> <<>>, exit |-> 0,
   fault |-> FALSE, output |-> <<>>]

ExpRest ==
  /\ fs = EmptyProject
  /\ expc = NoExportCall

----------------------------------------------------------------------------
(* The state machine: a generator constructed with cfg over a seeded       *)
(* source, then any sequence of calls.                                     *)

Init ==
  /\ ConcRest
  /\ PdfRest
  /\ FavRest
  /\ LangRest
  /\ ExpRest
  /\ cfg \in Configs
  /\ tape \in Seeds
  /\ pos = 0
  /\ pc = "idle"
  /\ tier = "none"
  /\ error = "none"
  /\ password = <<>>
  /\ blocks = <<>>
  /\ draws = 0

\* One call of tier t's operation, from validation to return: the
\* configuration is checked before the source is read.
Generate(t) ==
  /\ IF Valid(cfg, t)
     THEN \E r \in {Assemble(t, cfg, tape, pos)} :
             /\ pc' = "returned"
             /\ error' = "none"
             /\ password' = r.text
             /\ blocks' = r.blocks
             /\ draws' = r.k - pos
             /\ pos' = r.k % TapeLen
     ELSE /\ pc' = "raised"
          /\ error' = "InvalidConfiguration"
          /\ password' = <<>>
          /\ blocks' = <<>>
          /\ draws' = 0
          /\ pos' = pos
  /\ UNCHANGED <<cfg, tape>>
  /\ UNCHANGED <<concVars, pdfVars, favVars, langVars, expVars>>

generate_normal ==
  /\ tier' = "normal"
  /\ Generate("normal")

generate_strong ==
  /\ tier' = "strong"
  /\ Generate("strong")

generate_super_strong ==
  /\ tier' = "super_strong"
  /\ Generate("super_strong")

Next ==
  \/ generate_normal
  \/ generate_strong
  \/ generate_super_strong

Spec == Init /\ [][Next]_vars

TypeOK ==
  /\ cfg \in Configs
  /\ tape \in Seeds
  /\ pos \in 0..(TapeLen - 1)
  /\ pc \in {"idle", "returned", "raised"}
  /\ tier \in Tiers \cup {"none"}
  /\ error \in {"none", "InvalidConfiguration"}
  /\ draws \in Nat

----------------------------------------------------------------------------
(* Concurrent calls.  Each call runs the assembly of its tier one draw at  *)
(* a time: its control state (where it is in its pattern) and its          *)
(* workspace (the block in progress, the blocks built, the joined text)    *)
(* are its own; the only thing the calls share is the source of draws.     *)
(* The shared source counts the draws: the k-th draw of the program yields *)
(* level k mod DrawLevels, so which levels a call receives depends on how  *)
(* the calls interleave.  The scheduler may pre-empt the running call      *)
(* before any of its draws, at most MaxPreemptions times.                  *)

\* Wrongly shares one workspace between every call.
WorkspaceShared(c) == 1

\* The workspace call c builds its blocks in: its own.
Workspace(c) == c

\* The number of units a block of the given kind starts with.
BlockCount(kind, v) ==
  CASE kind = "Word" ->
         RandInt(DefaultConfig.minSyllables, DefaultConfig.maxSyllables, v)
    [] kind = "Digits" ->
         RandInt(DefaultConfig.minDigits, DefaultConfig.maxDigits, v)
    [] kind = "Symbol" -> RandInt(MinSymbols, MaxSymbols, v)

\* The list a digit or symbol block draws its characters from.
CharList(kind) == IF kind = "Digits" THEN Digits ELSE DefaultConfig.specials

\* Call state k and workspace w after the finished block b is appended:
\* the next block, or the join once the pattern is complete.
EndBlock(k, w, b) ==
  IF k.i = Len(Pattern(k.tier))
  THEN [k |-> [k EXCEPT !.phase = "join", !.j = 1, !.n = 0],
        w |-> [w EXCEPT !.cur = <<>>, !.blocks = Append(w.blocks, b),
                        !.text = Append(w.blocks, b)[1]]]
  ELSE [k |-> [k EXCEPT !.phase = "start", !.i = k.i + 1, !.n = 0],
        w |-> [w EXCEPT !.cur = <<>>, !.blocks = Append(w.blocks, b)]]

\* Call state k and workspace w after the draw v.
StepCall(k, w, v) ==
  CASE k.phase = "start" ->
         [k |-> [k EXCEPT !.n = BlockCount(Pattern(k.tier)[k.i], v),
                          !.phase = IF Pattern(k.tier)[k.i] = "Word"
                                    THEN "cons" ELSE "chars"],
          w |-> [w EXCEPT !.cur = <<>>]]
    [] k.phase = "cons" ->
         [k |-> [k EXCEPT !.phase = "vowel"],
          w |-> [w EXCEPT !.cur = w.cur \o Choice(Consonants, v)]]
    [] k.phase = "vowel" ->
         [k |-> [k EXCEPT !.n = k.n - 1,
                          !.phase = IF k.n = 1 THEN "case" ELSE "cons"],
          w |-> [w EXCEPT !.cur = Append(w.cur, Choice(Vowels, v))]]
    [] k.phase = "case" ->
         EndBlock(k, w, ApplyCase(Choice(CaseTransforms, v), w.cur))
    [] k.phase = "chars" ->
         IF k.n = 1
         THEN EndBlock(k, w,
                Append(w.cur, Choice(CharList(Pattern(k.tier)[k.i]), v)))
         ELSE [k |-> [k EXCEPT !.n = k.n - 1],
               w |-> [w EXCEPT !.cur =
                        Append(w.cur, Choice(CharList(Pattern(k.tier)[k.i]), v))]]
    [] k.phase = "join" ->
         [k |-> [k EXCEPT !.j = k.j + 1,
                          !.phase = IF k.j + 1 = Len(Pattern(k.tier))
                                    THEN "done" ELSE "join"],
          w |-> [w EXCEPT !.text = w.text
                                   \o <<Choice(DefaultConfig.separators, v)>>
                                   \o w.blocks[k.j + 1]]]

\* The call returns the joined text once its last separator is drawn.
Return(k, w) == IF k.phase = "done" THEN [k EXCEPT !.password = w.text] ELSE k

\* Letting call c draw takes the processor from a call that has not
\* returned.
Preempts(c) ==
  /\ sched.last \notin {0, c}
  /\ ctl[sched.last].phase # "done"

\* The scheduler lets call c draw.
MayRun(c) == Preempts(c) => sched.preemptions < MaxPreemptions

Switched(c) ==
  [last |-> c,
   preemptions |-> IF Preempts(c) THEN sched.preemptions + 1
                   ELSE sched.preemptions]

\* Call c enters tier t's operation.
Enter(c, t) ==
  /\ ctl[c].phase = "idle"
  /\ ctl' = [ctl EXCEPT ![c] = [IdleCall EXCEPT !.tier = t, !.phase = "start",
                                                !.i = 1]]
  /\ UNCHANGED <<ws, rng, sched>>
  /\ UNCHANGED <<genVars, pdfVars, favVars, langVars, expVars>>

conc_generate_normal == \E c \in Calls : Enter(c, "normal")

conc_generate_strong == \E c \in Calls : Enter(c, "strong")

conc_generate_super_strong == \E c \in Calls : Enter(c, "super_strong")

\* One draw of a running call.
conc_draw ==
  \E c \in Calls :
    /\ ctl[c].phase \notin {"idle", "done"}
    /\ MayRun(c)
    /\ \E r \in {StepCall(ctl[c], ws[Workspace(c)], rng)} :
          /\ ctl' = [ctl EXCEPT ![c] =
                       Return([r.k EXCEPT !.own = Append(ctl[c].own, rng)], r.w)]
          /\ ws' = [ws EXCEPT ![Workspace(c)] = r.w]
    /\ rng' = (rng + 1) % DrawLevels
    /\ sched' = Switched(c)
    /\ UNCHANGED <<genVars, pdfVars, favVars, langVars, expVars>>

InitConc ==
  /\ GenRest
  /\ PdfRest
  /\ FavRest
  /\ LangRest
  /\ ExpRest
  /\ ctl = [c \in Calls |-> IdleCall]
  /\ ws = [c \in Calls |-> EmptyWorkspace]
  /\ rng = 0
  /\ sched = [last |-> 0, preemptions |-> 0]

NextConc ==
  \/ conc_generate_normal
  \/ conc_generate_strong
  \/ conc_generate_super_strong
  \/ conc_draw

SpecConc == InitConc /\ [][NextConc]_vars

----------------------------------------------------------------------------
(* The PDF converter (fancy_tools/pdf/converter.py) and its command        *)
(* (pocket/cli.py).  A path is the sequence of the characters of its file  *)
(* name; the disk is the set of the names that exist.                      *)

\* The index of the last "." of name, 0 when there is none (str.rfind).
LastDot(name) ==
  IF \E i \in 1..Len(name) : name[i] = "."
  THEN CHOOSE i \in 1..Len(name) :
         /\ name[i] = "."
         /\ \A j \in (i + 1)..Len(name) : name[j] # "."
  ELSE 0

\* Path.suffix: the name from its last dot on, unless that dot opens or
\* closes the name.
Suffix(name) ==
  IF 1 < LastDot(name) /\ LastDot(name) < Len(name)
  THEN SubSeq(name, LastDot(name), Len(name))
  ELSE <<>>

\* Path.with_suffix(suf).
WithSuffix(name, suf) ==
  SubSeq(name, 1, Len(name) - Len(Suffix(name))) \o suf

DotPdf == <<".", "p", "d", "f">>

DotTxt == <<".", "t", "x", "t">>

DotMd == <<".", "m", "d">>

\* The suffix compared as it is written.
FileExtensionAsWritten(name) == Suffix(name)

\* input_file.suffix.lower()
FileExtension(name) == Lower(Suffix(name))

\* The libraries the converters import.
Libs == {"fpdf", "markdown_pdf"}

\* What can go wrong inside a converter once its library is imported: the
\* input cannot be decoded, or a file cannot be read or written.
Faults == {"none", "UnicodeDecodeError", "OSError"}

\* The classes an exception is an instance of.
Classes(exc) ==
  CASE exc = "FileNotFoundError" -> {"FileNotFoundError", "OSError", "Exception"}
    [] exc = "ValueError" -> {"ValueError", "Exception"}
    [] exc = "UnicodeDecodeError" -> {"UnicodeDecodeError", "ValueError", "Exception"}
    [] exc = "ImportError" -> {"ImportError", "Exception"}
    [] exc = "OSError" -> {"OSError", "Exception"}

\* A converter: its library is imported, the input read, the output saved.
Converter(name, lib, d, lb, out, fault) ==
  IF lib \notin lb
  THEN [raised |-> "ImportError", message |-> "not installed", disk |-> d,
        invoked |-> <<name>>, printed |-> FALSE]
  ELSE IF fault # "none"
  THEN [raised |-> fault, message |-> "none", disk |-> d,
        invoked |-> <<name>>, printed |-> FALSE]
  ELSE [raised |-> "none", message |-> "none", disk |-> d \cup {out},
        invoked |-> <<name>>, printed |-> FALSE]

convert_txt_to_pdf(d, lb, out, fault) ==
  Converter("convert_txt_to_pdf", "fpdf", d, lb, out, fault)

convert_md_to_pdf(d, lb, out, fault) ==
  Converter("convert_md_to_pdf", "markdown_pdf", d, lb, out, fault)

\* The success message is printed when the converter returns.
PrintSuccess(r) ==
  IF r.raised = "none" THEN [r EXCEPT !.printed = TRUE] ELSE r

\* A conversion that looks at the extension before it looks for the file.
ConvertToPdfExtensionFirst(d, lb, inp, out, fault) ==
  IF FileExtension(inp) = DotTxt
  THEN PrintSuccess(convert_txt_to_pdf(d, lb, out, fault))
  ELSE IF FileExtension(inp) = DotMd
  THEN PrintSuccess(convert_md_to_pdf(d, lb, out, fault))
  ELSE IF inp \notin d
  THEN [raised |-> "FileNotFoundError", message |-> "Input file not found",
        disk |-> d, invoked |-> <<>>, printed |-> FALSE]
  ELSE [raised |-> "ValueError", message |-> "Unsupported file extension",
        disk |-> d, invoked |-> <<>>, printed |-> FALSE]

\* convert_to_pdf(input_file, output_file) on disk d with libraries lb.
ConvertToPdf(d, lb, inp, out, fault) ==
  IF inp \notin d
  THEN [raised |-> "FileNotFoundError", message |-> "Input file not found",
        disk |-> d, invoked |-> <<>>, printed |-> FALSE]
  ELSE IF FileExtension(inp) = DotTxt
  THEN PrintSuccess(convert_txt_to_pdf(d, lb, out, fault))
  ELSE IF FileExtension(inp) = DotMd
  THEN PrintSuccess(convert_md_to_pdf(d, lb, out, fault))
  ELSE [raised |-> "ValueError", message |-> "Unsupported file extension",
        disk |-> d, invoked |-> <<>>, printed |-> FALSE]

\* Handlers that forget the last clause, except Exception.
HandlersNamedOnly == <<"FileNotFoundError", "ValueError", "ImportError">>

\* The except clauses of pdf_convert, in order; each raises click.Abort.
Handlers == <<"FileNotFoundError", "ValueError", "ImportError", "Exception">>

\* What pdf_convert raises when convert_to_pdf raised exc.
Handled(exc) ==
  IF exc = "none" THEN "none"
  ELSE IF \E i \in 1..Len(Handlers) : Handlers[i] \in Classes(exc)
  THEN "Abort"
  ELSE exc

\* The output path pdf_convert converts to.
OutputOf(inp, output) ==
  IF output.some THEN output.path ELSE WithSuffix(inp, DotPdf)

\* pdf_convert(input_file, output): the record of the call and the disk
\* after it.
PdfConvert(d, lb, inp, output, fault) ==
  IF Lower(Suffix(OutputOf(inp, output))) # DotPdf
  THEN [call |-> [op |-> "pdf_convert", input |-> inp, given |-> output,
                  output |-> NoPath, called |-> FALSE, raised |-> "none", message |-> "none",
                  invoked |-> <<>>, printed |-> FALSE, outcome |-> "Abort"],
        disk |-> d]
  ELSE \* the LET is evaluated once per call
       LET r == ConvertToPdf(d, lb, inp, OutputOf(inp, output), fault)
       IN [call |-> [op |-> "pdf_convert", input |-> inp, given |-> output,
                     output |-> SomePath(OutputOf(inp, output)),
                     called |-> TRUE, raised |-> r.raised,
                     message |-> r.message, invoked |-> r.invoked,
                     printed |-> r.printed, outcome |-> Handled(r.raised)],
           disk |-> r.disk]

\* Path(output) if output else None
OutputPath(output) ==
  IF output.some /\ Len(output.path) > 0 THEN SomePath(output.path) ELSE NoPath

\* The input names the converter is called with.
PdfInputs ==
  { <<"a", ".", "t", "x", "t">>, <<"a", ".", "T", "X", "T">>, <<"a", ".", "m", "d">>, <<"a", ".", "x", "y", "z">>,
    <<"a">>, <<".", "m", "d">> }

\* The output names the converter is called with.
PdfOutputs == { <<"a", ".", "p", "d", "f">>, <<"a", ".", "P", "D", "F">>, <<"a", ".", "t", "x", "t">> }

\* The -o option of the command: absent, empty or a name.
PdfOptions == {NoPath, SomePath(<<>>)} \cup {SomePath(o) : o \in PdfOutputs}

\* The files on disk before the first call.
PdfDisks == { PdfInputs, { <<"a", ".", "T", "X", "T">>, <<"a", ".", "x", "y", "z">> } }

convert_to_pdf ==
  /\ \E inp \in PdfInputs, out \in PdfOutputs, fault \in Faults :
       \E r \in {ConvertToPdf(disk, libs, inp, out, fault)} :
         /\ pdfc' = [op |-> "convert_to_pdf", input |-> inp,
                     given |-> SomePath(out), output |-> SomePath(out),
                     called |-> TRUE,
                     raised |-> r.raised, message |-> r.message,
                     invoked |-> r.invoked, printed |-> r.printed,
                     outcome |-> r.raised]
         /\ disk' = r.disk
  /\ UNCHANGED libs
  /\ UNCHANGED <<genVars, concVars, favVars, langVars, expVars>>

pdf_convert ==
  /\ \E inp \in PdfInputs, output \in PdfOptions \ {SomePath(<<>>)},
        fault \in Faults :
       \E r \in {PdfConvert(disk, libs, inp, output, fault)} :
         /\ pdfc' = r.call
         /\ disk' = r.disk
  /\ UNCHANGED libs
  /\ UNCHANGED <<genVars, concVars, favVars, langVars, expVars>>

\* The command of pocket/cli.py: click checks that the input exists.
pdf_convert_cmd ==
  /\ \E inp \in PdfInputs \cap disk, output \in PdfOptions, fault \in Faults :
       \E r \in {PdfConvert(disk, libs, inp, OutputPath(output), fault)} :
         /\ pdfc' = [r.call EXCEPT !.op = "pdf_convert_cmd"]
         /\ disk' = r.disk
  /\ UNCHANGED libs
  /\ UNCHANGED <<genVars, concVars, favVars, langVars, expVars>>

InitPdf ==
  /\ GenRest
  /\ ConcRest
  /\ FavRest
  /\ LangRest
  /\ ExpRest
  /\ disk \in PdfDisks
  /\ libs \in SUBSET Libs
  /\ pdfc = NoPdfCall

NextPdf ==
  \/ convert_to_pdf
  \/ pdf_convert
  \/ pdf_convert_cmd

SpecPdf == InitPdf /\ [][NextPdf]_vars

----------------------------------------------------------------------------
(* The favicon converter (fancy_tools/web/favicon.py).                     *)

DotIco == <<".", "i", "c", "o">>

\* Standard favicon sizes.
DEFAULT_FAVICON_SIZES ==
  << <<256, 256>>, <<128, 128>>, <<64, 64>>, <<48, 48>>, <<32, 32>>, <<16, 16>> >>

\* The sizes the image is saved with.
SizesUsed(sizes) == IF sizes.some THEN sizes.list ELSE DEFAULT_FAVICON_SIZES

\* The record of a call that raised exc before the image was opened.
FavRaised(d, exc) ==
  [raised |-> exc, opened |-> FALSE, saved |-> <<>>, printed |-> FALSE,
   images |-> d]

\* The image is opened and saved as ICO; opening fails with fault.
OpenAndSave(d, out, sizes, fault) ==
  IF fault # "none"
  THEN [raised |-> fault, opened |-> TRUE, saved |-> <<>>, printed |-> FALSE,
        images |-> d]
  ELSE [raised |-> "none", opened |-> TRUE, saved |-> SizesUsed(sizes),
        printed |-> TRUE, images |-> d \cup {out}]

\* A conversion that looks at the output suffix before it looks for the
\* input.
ConvertToFaviconSuffixFirst(d, pil, inp, out, sizes, fault) ==
  IF ~pil THEN FavRaised(d, "ImportError")
  ELSE IF Lower(Suffix(out)) # DotIco THEN FavRaised(d, "ValueError")
  ELSE IF inp \notin d THEN FavRaised(d, "FileNotFoundError")
  ELSE OpenAndSave(d, out, sizes, fault)

\* convert_to_favicon(input_file, output_file, sizes) on disk d; pil tells
\* whether PIL can be imported.
ConvertToFavicon(d, pil, inp, out, sizes, fault) ==
  IF ~pil THEN FavRaised(d, "ImportError")
  ELSE IF inp \notin d THEN FavRaised(d, "FileNotFoundError")
  ELSE IF Lower(Suffix(out)) # DotIco THEN FavRaised(d, "ValueError")
  ELSE OpenAndSave(d, out, sizes, fault)

\* The images the converter is called with.
FavInputs == { <<"l", "o", "g", "o", ".", "p", "n", "g">>, <<"o", "l", "d", ".", "i", "c", "o">> }

\* The output names the converter is called with.
FavOutputs == { <<"f", ".", "i", "c", "o">>, <<"f", ".", "I", "C", "O">>, <<"f", ".", "p", "n", "g">>, <<"f", "a", "v", "i", "c", "o", "n">> }

\* The sizes argument: None, a custom list, an empty list.
FavSizes ==
  { NoSizes,
    [some |-> TRUE, list |-> << <<64, 64>>, <<32, 32>> >>],
    [some |-> TRUE, list |-> <<>>] }

\* What can go wrong when the image is opened.
FavFaults == {"none", "OSError"}

convert_to_favicon ==
  /\ \E inp \in FavInputs, out \in FavOutputs, sizes \in FavSizes,
        fault \in FavFaults :
       \E r \in {ConvertToFavicon(images, pillow, inp, out, sizes, fault)} :
         /\ favc' = [op |-> "convert_to_favicon", input |-> inp,
                     output |-> out, sizes |-> sizes, raised |-> r.raised,
                     opened |-> r.opened, saved |-> r.saved,
                     printed |-> r.printed]
         /\ images' = r.images
  /\ UNCHANGED pillow
  /\ UNCHANGED <<genVars, concVars, pdfVars, langVars, expVars>>

InitFavicon ==
  /\ GenRest
  /\ ConcRest
  /\ PdfRest
  /\ LangRest
  /\ ExpRest
  /\ images \in SUBSET FavInputs
  /\ pillow \in BOOLEAN
  /\ favc = NoFavCall

NextFavicon == convert_to_favicon

SpecFavicon == InitFavicon /\ [][NextFavicon]_vars

----------------------------------------------------------------------------
(* The language identifier of the project exporter                         *)
(* (super_pocket/project/to_file.py; proj-to-file.py is the same code).    *)
(* A path is the sequence of its characters, "/" the separator.            *)

\* Language mapping for syntax highlighting in Markdown code blocks.
LANG_MAP ==
  << << <<".", "p", "y">>, "python" >>,
     << <<".", "j", "s">>, "javascript" >>,
     << <<".", "t", "s">>, "typescript" >>,
     << <<".", "h", "t", "m", "l">>, "html" >>,
     << <<".", "c", "s", "s">>, "css" >>,
     << <<".", "s", "c", "s", "s">>, "scss" >>,
     << <<".", "j", "s", "o", "n">>, "json" >>,
     << <<".", "x", "m", "l">>, "xml" >>,
     << <<".", "y", "m", "l">>, "yaml" >>,
     << <<".", "y", "a", "m", "l">>, "yaml" >>,
     << <<".", "m", "d">>, "markdown" >>,
     << <<".", "s", "h">>, "bash" >>,
     << <<".", "j", "a", "v", "a">>, "java" >>,
     << <<".", "c">>, "c" >>,
     << <<".", "c", "p", "p">>, "cpp" >>,
     << <<".", "g", "o">>, "go" >>,
     << <<".", "r", "s">>, "rust" >>,
     << <<".", "p", "h", "p">>, "php" >>,
     << <<".", "r", "b">>, "ruby" >>,
     << <<".", "s", "q", "l">>, "sql" >>,
     << <<".", "d", "o", "c", "k", "e", "r", "f", "i", "l", "e">>, "dockerfile" >>,
     << <<"D", "o", "c", "k", "e", "r", "f", "i", "l", "e">>, "dockerfile" >> >>

\* key in LANG_MAP
InLangMap(key) == \E i \in 1..Len(LANG_MAP) : LANG_MAP[i][1] = key

\* LANG_MAP.get(key, default)
LangMapGet(key, default) ==
  IF InLangMap(key)
  THEN LANG_MAP[CHOOSE i \in 1..Len(LANG_MAP) : LANG_MAP[i][1] = key][2]
  ELSE default

\* The index of the last "/" of path, 0 when there is none.
LastSep(path) ==
  IF \E i \in 1..Len(path) : path[i] = "/"
  THEN CHOOSE i \in 1..Len(path) :
         /\ path[i] = "/"
         /\ \A j \in (i + 1)..Len(path) : path[j] # "/"
  ELSE 0

\* Wrongly takes the whole path for the name.
BasenameWholePath(path) == path

\* os.path.basename
Basename(path) == SubSeq(path, LastSep(path) + 1, Len(path))

\* The extension os.path.splitext splits off: from the last dot of the
\* last component on, unless only dots precede it there.
SplitExt(path) ==
  IF /\ LastDot(path) > LastSep(path)
     /\ \E i \in (LastSep(path) + 1)..(LastDot(path) - 1) : path[i] # "."
  THEN SubSeq(path, LastDot(path), Len(path))
  ELSE <<>>

\* get_language_identifier(filename)
GetLanguageIdentifier(filename) ==
  IF InLangMap(Basename(filename))
  THEN LangMapGet(Basename(filename), "plaintext")
  ELSE LangMapGet(Lower(SplitExt(filename)), "plaintext")

\* The directory parts of the file names the function is called with.
LangDirs ==
  { <<>>,
    <<"s", "r", "c", "/">>,
    <<"/">>,
    <<"a", ".", "p", "y", "/">>,
    <<"D", "o", "c", "k", "e", "r", "f", "i", "l", "e", "/">>,
    <<".", ".", "/", "x", ".", "d", "/">>,
    <<".", "g", "i", "t", "/">>,
    <<"p", "k", "g", ".", "d", "/", "s", "u", "b", "/">> }

\* The last components of the file names the function is called with.
LangNames ==
  { <<"D", "o", "c", "k", "e", "r", "f", "i", "l", "e">>,
    <<"d", "o", "c", "k", "e", "r", "f", "i", "l", "e">>,
    <<"m", "a", "i", "n", ".", "p", "y">>,
    <<"M", "A", "I", "N", ".", "P", "Y">>,
    <<".", "p", "y">>,
    <<".", "P", "y">>,
    <<".", ".", "p", "y">>,
    <<"a", ".", "t", "a", "r", ".", "g", "z">>,
    <<"x", ".", "D", "o", "c", "k", "e", "r", "f", "i", "l", "e">>,
    <<"n", "o", "e", "x", "t">>,
    <<"a", ".">>,
    <<"s", ".", "S", "C", "S", "S">>,
    <<>>,
    <<"x", ".", "y", "a", "m", "l">>,
    <<"x", ".", "c">>,
    <<"x", ".", "C">>,
    <<"p", "y">> }

get_language_identifier ==
  /\ \E d \in LangDirs, n \in LangNames :
       langc' = [op |-> "get_language_identifier", filename |-> d \o n,
                 result |-> GetLanguageIdentifier(d \o n)]
  /\ UNCHANGED <<genVars, concVars, pdfVars, favVars, expVars>>

InitLang ==
  /\ GenRest
  /\ ConcRest
  /\ PdfRest
  /\ FavRest
  /\ ExpRest
  /\ langc = NoLangCall

NextLang == get_language_identifier

SpecLang == InitLang /\ [][NextLang]_vars

----------------------------------------------------------------------------
(* The project exporter (super_pocket/project/to_file.py; proj-to-file.py  *)
(* is the same code) and its command (pocket/cli.py).  The project is a    *)
(* directory tree: dirs is the set of its directories, each the sequence   *)
(* of the names that lead to it from the project root; every directory     *)
(* holds the files named in files, and the root those of extra as well;    *)
(* order is the order in which a directory lists its subdirectories;       *)
(* undecodable names the files that are not UTF-8 text.  Names and paths   *)
(* are sequences of characters.                                            *)

\* The number of directories of the largest project.
MaxDirs == 3

NameApp == <<"a", "p", "p">>

NameLib == <<"l", "i", "b">>

NamePy == <<"a", ".", "p", "y">>

\* The names a directory of the project can have.
DirNames == {NameApp, NameLib}

\* The file names of the project, in the order sorted() gives them.
SortedNames == << NamePy, NameLib, <<"w", "-", "1", "-", "f", "i", "l", "e", ".", "m", "d">> >>

\* The working directory of the process.
Cwd == <<"/", "w">>

RECURSIVE DirTrees(_)
\* The directory trees of at most n directories: a directory is made
\* inside the root or inside a directory that exists.
DirTrees(n) ==
  IF n = 0 THEN {{}}
  ELSE DirTrees(n - 1)
       \cup UNION {{t \cup {Append(q, d)} : q \in t \cup {<<>>}, d \in DirNames} :
                     t \in DirTrees(n - 1)}

\* The projects: their directories, the files each directory holds, the
\* order os.walk lists the directories in, the files that are not UTF-8
\* and the files that cannot be opened.
Projects ==
  { [dirs |-> d, files |-> f, order |-> o, undecodable |-> u,
     unreadable |-> r, extra |-> {}] :
      d \in DirTrees(MaxDirs),
      f \in SUBSET {NamePy, NameLib},
      o \in {<<NameApp, NameLib>>, <<NameLib, NameApp>>},
      u \in {{}, {NamePy}},
      r \in {{}, {NameLib}} }

\* The indexes at which a part of s begins: its start and after each comma.
PartStarts(s) == {1} \cup {i + 1 : i \in {k \in 1..Len(s) : s[k] = ","}}

\* The index at which the part of s that begins at i ends: before the
\* next comma, or at the end of s.
PartEnd(s, i) ==
  CHOOSE j \in (i - 1)..Len(s) :
    /\ j = Len(s) \/ s[j + 1] = ","
    /\ \A k \in i..j : s[k] # ","

\* set(exclude_str.split(',')): empty parts are kept.
ExcludeSet(exclude_str) ==
  {SubSeq(exclude_str, i, PartEnd(exclude_str, i)) : i \in PartStarts(exclude_str)}

\* os.path.join(a, b) for a relative b.
JoinPath(a, b) ==
  IF Len(a) = 0 \/ a[Len(a)] = "/" THEN a \o b ELSE a \o <<"/">> \o b

RECURSIVE PathOf(_, _)
\* The path os.walk(top) reports for the directory reached by the names cp.
PathOf(top, cp) ==
  IF cp = <<>> THEN top
  ELSE JoinPath(PathOf(top, SubSeq(cp, 1, Len(cp) - 1)), cp[Len(cp)])

\* A walk that descends into every directory.
KeepDirAlways(d, exclude) == TRUE

\* d not in exclude
KeepDir(d, exclude) == d \notin exclude

RECURSIVE Walk(_, _, _)
RECURSIVE WalkSubs(_, _, _, _)
\* os.walk(top, topdown=True) with dirs[:] pruned by exclude: the
\* directories visited, from cp down, each before its subdirectories.
Walk(f, exclude, cp) == <<cp>> \o WalkSubs(f, exclude, cp, 1)

\* The visits of the subdirectories of cp from the i-th listed on.
WalkSubs(f, exclude, cp, i) ==
  IF i > Len(f.order) THEN <<>>
  ELSE (IF Append(cp, f.order[i]) \in f.dirs /\ KeepDir(f.order[i], exclude)
        THEN Walk(f, exclude, Append(cp, f.order[i]))
        ELSE <<>>)
       \o WalkSubs(f, exclude, cp, i + 1)

\* The files of the directory cp.
FilesIn(f, cp) == IF cp = <<>> THEN f.files \cup f.extra ELSE f.files

\* sorted(names)
Sorted(names) == SelectSeq(SortedNames, LAMBDA n : n \in names)

RECURSIVE RemoveAll(_, _, _, _)
\* str.replace(old, ''): every occurrence of old in s[i..], left to right.
RemoveAll(s, old, i, acc) ==
  IF i > Len(s) THEN acc
  ELSE IF i + Len(old) - 1 <= Len(s) /\ SubSeq(s, i, i + Len(old) - 1) = old
       THEN RemoveAll(s, old, i + Len(old), acc)
       ELSE RemoveAll(s, old, i + 1, Append(acc, s[i]))

\* s.count(os.sep)
CountSep(s) == Cardinality({i \in 1..Len(s) : s[i] = "/"})

\* level = root.replace(root_dir, '').count(os.sep)
Level(root, root_dir) == CountSep(RemoveAll(root, root_dir, 1, <<>>))

\* The lines generate_tree yields for the directory cp: its own line when
\* its level is positive, then its files, sorted.  A line is kept as its
\* parts: the level that sets its indent, its prefix ("BRANCH" for the tee
\* drawn before an entry, "LAST" for the corner drawn before the last file)
\* and its name; at records the directory the line belongs to.
LinesOf(f, root_dir, exclude, cp) ==
  (IF Level(PathOf(root_dir, cp), root_dir) > 0
   THEN << [kind |-> "dir", name |-> Basename(PathOf(root_dir, cp)),
            level |-> Level(PathOf(root_dir, cp), root_dir),
            prefix |-> "BRANCH", at |-> cp] >>
   ELSE <<>>)
  \o [i \in 1..Len(Sorted(FilesIn(f, cp) \ exclude)) |->
        [kind |-> "file", name |-> Sorted(FilesIn(f, cp) \ exclude)[i],
         level |-> Level(PathOf(root_dir, cp), root_dir),
         prefix |-> IF i = Len(Sorted(FilesIn(f, cp) \ exclude))
                    THEN "LAST" ELSE "BRANCH",
         at |-> cp]]

RECURSIVE TreeLines(_, _, _, _, _)
\* The lines of the directories visited[i..].
TreeLines(f, root_dir, exclude, visited, i) ==
  IF i > Len(visited) THEN <<>>
  ELSE LinesOf(f, root_dir, exclude, visited[i])
       \o TreeLines(f, root_dir, exclude, visited, i + 1)

\* generate_tree(root_dir, exclude): the lines yielded.
GenerateTree(f, root_dir, exclude) ==
  TreeLines(f, root_dir, exclude, Walk(f, exclude, <<>>), 1)

\* The level generate_tree computes for each directory it visits.
LevelsOf(f, root_dir, exclude) ==
  [i \in 1..Len(Walk(f, exclude, <<>>)) |->
     [at |-> Walk(f, exclude, <<>>)[i],
      level |-> Level(PathOf(root_dir, Walk(f, exclude, <<>>)[i]), root_dir)]]

\* os.path.relpath(file_path, project_path)
RelativePath(cp, filename) == PathOf(<<>>, Append(cp, filename))

\* What open(file_path, 'r', encoding='utf-8') and read() raise for the
\* file named filename: "none" when the content is returned.
ReadFault(f, filename) ==
  IF filename \in f.unreadable THEN "OSError"
  ELSE IF filename \in f.undecodable THEN "UnicodeDecodeError"
  ELSE "none"

\* One write to the output file.
Chunk(kind, cp, name, path, lang) ==
  [kind |-> kind, at |-> cp, name |-> name, path |-> path, lang |-> lang]

\* The five writes of a content section.
SectionChunks(cp, filename) ==
  << Chunk("separator", cp, filename, <<>>, "none"),
     Chunk("header", cp, filename, RelativePath(cp, filename), "none"),
     Chunk("fence", cp, filename, <<>>, GetLanguageIdentifier(filename)),
     Chunk("content", cp, filename, <<>>, "none"),
     Chunk("close", cp, filename, <<>>, "none") >>

\* The same body with the separator written before the file is opened.
WriteSectionSeparatorFirst(cp, filename, raised) ==
  IF raised = "none" THEN SectionChunks(cp, filename)
  ELSE << Chunk("separator", cp, filename, <<>>, "none") >>

\* The body of the try statement of one file: the writes it makes to the
\* output file when open and read raise the exception raised.  The
\* content is read before the first write.
WriteSection(cp, filename, raised) ==
  IF raised = "none" THEN SectionChunks(cp, filename) ELSE <<>>

\* The except clauses of the try statement of one file, in order, with
\* the message each prints.
ReadHandlers ==
  << [class |-> "UnicodeDecodeError", prints |-> "warning"],
     [class |-> "Exception", prints |-> "error"] >>

\* The message printed when open and read raised raised: that of the
\* first clause that matches; the exception leaves the loop when no
\* clause does.
PrintedFor(raised) ==
  IF raised = "none" THEN "none"
  ELSE IF \E i \in 1..Len(ReadHandlers) : ReadHandlers[i].class \in Classes(raised)
  THEN ReadHandlers[CHOOSE i \in 1..Len(ReadHandlers) :
                      /\ ReadHandlers[i].class \in Classes(raised)
                      /\ \A j \in 1..(i - 1) :
                           ReadHandlers[j].class \notin Classes(raised)].prints
  ELSE "propagates"

\* What the loop over sorted(files) does with the files of cp: a content
\* section for a file that is read, a message for one that cannot be
\* opened or decoded, nothing for an excluded one.
FileResults(f, exclude, cp) ==
  [i \in 1..Len(Sorted(FilesIn(f, cp) \ exclude)) |->
     [name |-> Sorted(FilesIn(f, cp) \ exclude)[i],
      at |-> cp,
      relative_path |-> RelativePath(cp, Sorted(FilesIn(f, cp) \ exclude)[i]),
      lang |-> GetLanguageIdentifier(Sorted(FilesIn(f, cp) \ exclude)[i]),
      written |-> ReadFault(f, Sorted(FilesIn(f, cp) \ exclude)[i]) = "none",
      printed |-> PrintedFor(ReadFault(f, Sorted(FilesIn(f, cp) \ exclude)[i])),
      chunks |-> WriteSection(cp, Sorted(FilesIn(f, cp) \ exclude)[i],
                              ReadFault(f, Sorted(FilesIn(f, cp) \ exclude)[i]))]]

RECURSIVE Flatten(_, _)
\* The writes of the results from the i-th on, in order, up to an
\* exception that leaves the loop.
Flatten(results, i) ==
  IF i > Len(results) THEN <<>>
  ELSE IF results[i].printed = "propagates" THEN results[i].chunks
  ELSE results[i].chunks \o Flatten(results, i + 1)

\* The exit status: 1 when an exception reached the outer except clauses,
\* which call sys.exit(1).
ExitOf(results) ==
  IF \E i \in 1..Len(results) : results[i].printed = "propagates" THEN 1 ELSE 0

\* The writes that precede the content sections: the title, then the
\* tree in a fenced block.
HeadChunks(project_name, lines) ==
  << Chunk("title", <<>>, project_name, <<>>, "none"),
     Chunk("tree_open", <<>>, project_name, <<>>, "bash"),
     Chunk("root", <<>>, project_name, <<>>, "none") >>
  \o [i \in 1..Len(lines) |->
        Chunk("tree", lines[i].at, lines[i].name, <<>>, "none")]
  \o << Chunk("tree_close", <<>>, project_name, <<>>, "none") >>

RECURSIVE AllFileResults(_, _, _, _)
AllFileResults(f, exclude, visited, i) ==
  IF i > Len(visited) THEN <<>>
  ELSE FileResults(f, exclude, visited[i])
       \o AllFileResults(f, exclude, visited, i + 1)

\* os.path.abspath of a project path: ".", an absolute path or a name
\* below the working directory, a trailing separator dropped.
Abspath(path) ==
  IF path = <<".">> THEN Cwd
  ELSE IF path[Len(path)] = "/" /\ Len(path) > 1
       THEN (IF path[1] = "/" THEN SubSeq(path, 1, Len(path) - 1)
             ELSE JoinPath(Cwd, SubSeq(path, 1, Len(path) - 1)))
       ELSE (IF path[1] = "/" THEN path ELSE JoinPath(Cwd, path))

\* f"{project_name}-1-file.md"
DefaultOutput(project_path) == Basename(Abspath(project_path)) \o <<"-", "1", "-", "f", "i", "l", "e", ".", "m", "d">>

\* The project as the walks see it: the output file is created first, in
\* the working directory.
WithOutput(f, project_path) ==
  IF Abspath(project_path) = Cwd
  THEN [f EXCEPT !.extra = {DefaultOutput(project_path)}]
  ELSE f

\* create_codebase_markdown(project_path, None, exclude_str): the record of
\* the call.  The output file cannot be opened when fault is TRUE.
CreateCodebaseMarkdown(f, project_path, exclude_str, fault) ==
  IF fault
  THEN [NoExportCall EXCEPT !.op = "create_codebase_markdown",
                            !.root_dir = Abspath(project_path),
                            !.exclude = ExcludeSet(exclude_str),
                            !.exit = 1,
                            !.fault = TRUE]
  ELSE [op |-> "create_codebase_markdown",
        root_dir |-> Abspath(project_path),
        exclude |-> ExcludeSet(exclude_str),
        levels |-> LevelsOf(WithOutput(f, project_path), Abspath(project_path),
                            ExcludeSet(exclude_str)),
        lines |-> GenerateTree(WithOutput(f, project_path),
                               Abspath(project_path), ExcludeSet(exclude_str)),
        sections |-> SelectSeq(
                       AllFileResults(WithOutput(f, project_path),
                                      ExcludeSet(exclude_str),
                                      Walk(WithOutput(f, project_path),
                                           ExcludeSet(exclude_str), <<>>), 1),
                       LAMBDA r : r.written),
        skipped |-> SelectSeq(
                       AllFileResults(WithOutput(f, project_path),
                                      ExcludeSet(exclude_str),
                                      Walk(WithOutput(f, project_path),
                                           ExcludeSet(exclude_str), <<>>), 1),
                       LAMBDA r : ~r.written),
        exit |-> ExitOf(AllFileResults(WithOutput(f, project_path),
                                       ExcludeSet(exclude_str),
                                       Walk(WithOutput(f, project_path),
                                            ExcludeSet(exclude_str), <<>>), 1)),
        fault |-> FALSE,
        output |-> HeadChunks(Basename(Abspath(project_path)),
                              GenerateTree(WithOutput(f, project_path),
                                           Abspath(project_path),
                                           ExcludeSet(exclude_str)))
                   \o Flatten(AllFileResults(WithOutput(f, project_path),
                                             ExcludeSet(exclude_str),
                                             Walk(WithOutput(f, project_path),
                                                  ExcludeSet(exclude_str), <<>>), 1),
                              1)]

\* The default of the command's --exclude option.
DefaultExclude ==
  <<"e", "n", "v", ",", ".", "e", "n", "v", ",", "v", "e", "n", "v", ",", ".", "v", "e", "n", "v", ",", ".", "g", "i", "t", "i", "g", "n", "o", "r", "e", ",", ".", "g", "i", "t", ",", ".", "v", "s", "c", "o", "d", "e", ",", ".", "i", "d", "e", "a", ",", ".", "c", "u", "r", "s", "o", "r", ",", "l", "i", "b", ",", "b", "i", "n", ",", "s", "i", "t", "e", "-", "p", "a", "c", "k", "a", "g", "e", "s", ",", "n", "o", "d", "e", "_", "m", "o", "d", "u", "l", "e", "s", ",", "_", "_", "p", "y", "c", "a", "c", "h", "e", "_", "_", ",", ".", "D", "S", "_", "S", "t", "o", "r", "e">>

\* The exclude strings the exporter is called with.
ExcludeStrs == { <<>>, <<"l", "i", "b">>, <<"l", "i", "b", ",", "a", ".", "p", "y">>, <<"a", ".", "p", "y", ",", " ", "l", "i", "b">> }

\* The root directories generate_tree is called with.
RootDirs == { <<"/", "a", "p", "p">>, <<"a", "p", "p">>, <<"a", "p", "p", "/">> }

\* The project paths the exporter is called with.
ProjectPaths == { <<"/", "a", "p", "p">>, <<"a", "p", "p", "/">>, <<".">> }

\* The exporter runs once in a process.
generate_tree ==
  /\ expc.op = "none"
  /\ \E root_dir \in RootDirs, exclude_str \in ExcludeStrs :
       expc' = [op |-> "generate_tree", root_dir |-> root_dir,
                exclude |-> ExcludeSet(exclude_str),
                levels |-> LevelsOf(fs, root_dir, ExcludeSet(exclude_str)),
                lines |-> GenerateTree(fs, root_dir, ExcludeSet(exclude_str)),
                sections |-> <<>>, skipped |-> <<>>, exit |-> 0,
                fault |-> FALSE, output |-> <<>>]
  /\ UNCHANGED fs
  /\ UNCHANGED <<genVars, concVars, pdfVars, favVars, langVars>>

create_codebase_markdown ==
  /\ expc.op = "none"
  /\ \E project_path \in ProjectPaths, exclude_str \in ExcludeStrs,
        fault \in BOOLEAN :
       expc' = CreateCodebaseMarkdown(fs, project_path, exclude_str, fault)
  /\ UNCHANGED fs
  /\ UNCHANGED <<genVars, concVars, pdfVars, favVars, langVars>>

\* The command: --path defaults to '.', --exclude to DefaultExclude.
project_to_file ==
  /\ expc.op = "none"
  /\ \E path \in ProjectPaths, exclude \in {DefaultExclude, <<"a", "p", "p">>},
        fault \in BOOLEAN :
       expc' = [CreateCodebaseMarkdown(fs, path, exclude, fault)
                  EXCEPT !.op = "project_to_file"]
  /\ UNCHANGED fs
  /\ UNCHANGED <<genVars, concVars, pdfVars, favVars, langVars>>

InitExport ==
  /\ GenRest
  /\ ConcRest
  /\ PdfRest
  /\ FavRest
  /\ LangRest
  /\ fs \in Projects
  /\ expc = NoExportCall

NextExport ==
  \/ generate_tree
  \/ create_codebase_markdown
  \/ project_to_file

SpecExport == InitExport /\ [][NextExport]_vars

----------------------------------------------------------------------------
(* Helpers of the properties. *)

Returned(t) == pc = "returned" /\ tier = t

AlphaOnly(part) == Len(part) > 0 /\ \A i \in 1..Len(part) : part[i] \in AlphaClass

SpecialOnly(part) ==
  Len(part) > 0 /\ \A i \in 1..Len(part) : part[i] \in SpecialCharClass

RECURSIVE SumLen(_, _)
\* The total length of the first n blocks of bs.
SumLen(bs, n) == IF n <= 0 THEN 0 ELSE Len(bs[n]) + SumLen(bs, n - 1)

\* The index in the joined text of the first character of block j.
StartOf(bs, j) == SumLen(bs, j - 1) + j

\* The index in the joined text of the separator that follows block j.
JunctionOf(bs, j) == SumLen(bs, j) + j

\* The junction separators of the returned password.
JunctionChars == {password[JunctionOf(blocks, j)] : j \in 1..(Len(blocks) - 1)}

----------------------------------------------------------------------------
(* C1: every output of generate_normal() splits on [-_.|] into exactly 4   *)
(* parts, each non-empty and made only of the letters A-Z and a-z.         *)
C1_NormalFourLetterParts ==
  Returned("normal") =>
    /\ Len(Split(password)) = 4
    /\ \A i \in 1..Len(Split(password)) : LettersOnly(Split(password)[i])

C3_SuperStrongSevenParts ==
  Returned("super_strong") =>
    /\ Len(Split(password)) = 7
    /\ \A i \in {1, 4, 7} : AlphaOnly(Split(password)[i])
    /\ \A i \in {2, 5} : SpecialOnly(Split(password)[i])
    /\ \A i \in {3, 6} : DigitsOnly(Split(password)[i])

----------------------------------------------------------------------------
(* The end-to-end shape                                                    *)
(* ^[A-Za-z]+[-_.|][^\sA-Za-z0-9][-_.|]?\d+[-_.|][A-Za-z]+[-_.|]           *)
(*  [^\sA-Za-z0-9][-_.|]?\d+[-_.|][A-Za-z]+$                               *)

Whitespace == {" "}

\* Membership of the character c in a class of the shape.
InClass(cls, c) ==
  CASE cls = "letter" -> c \in LetterClass
    [] cls = "sep" -> c \in SeparatorClass
    [] cls = "digit" -> c \in DigitClass
    [] cls = "other" -> c \notin (Whitespace \cup LetterClass \cup DigitClass)

SuperStrongShape ==
  << <<"letter", "+">>, <<"sep", "1">>, <<"other", "1">>, <<"sep", "?">>,
     <<"digit", "+">>, <<"sep", "1">>,
     <<"letter", "+">>, <<"sep", "1">>, <<"other", "1">>, <<"sep", "?">>,
     <<"digit", "+">>, <<"sep", "1">>,
     <<"letter", "+">> >>

RECURSIVE Matches(_, _, _, _)
\* Whether s[j..] matches the items i.. of shape re, to the end of s.
Matches(re, i, s, j) ==
  IF i > Len(re) THEN j > Len(s)
  ELSE LET here == j <= Len(s) /\ InClass(re[i][1], s[j])
       IN CASE re[i][2] = "1" -> here /\ Matches(re, i + 1, s, j + 1)
            [] re[i][2] = "?" ->
                 \/ Matches(re, i + 1, s, j)
                 \/ here /\ Matches(re, i + 1, s, j + 1)
            [] re[i][2] = "+" ->
                 here /\ (\/ Matches(re, i + 1, s, j + 1)
                          \/ Matches(re, i, s, j + 1))

(* C5: every output of generate_super_strong() matches the end-to-end      *)
(* shape, for symbol blocks of length 1 and of length 2.                   *)
C5_MatchesShape ==
  Returned("super_strong") => Matches(SuperStrongShape, 1, password, 1)

----------------------------------------------------------------------------
(* C6: in every tier the returned password is its blocks in order with     *)
(* exactly one separator of the configured set at each junction: n blocks  *)
(* carry n-1 inserted separators, none before the first block and none     *)
(* after the last, and the password neither begins nor ends with a         *)
(* separator character.                                                    *)
C6_OneSeparatorPerJunction ==
  pc = "returned" =>
    /\ Len(blocks) = Len(Pattern(tier))
    /\ Len(password) = SumLen(blocks, Len(blocks)) + Len(blocks) - 1
    /\ \A j \in 1..Len(blocks) :
         SubSeq(password, StartOf(blocks, j), JunctionOf(blocks, j) - 1) = blocks[j]
    /\ \A j \in 1..(Len(blocks) - 1) :
         password[JunctionOf(blocks, j)] \in Range(cfg.separators)
    /\ password[1] \notin SeparatorClass
    /\ password[Len(password)] \notin SeparatorClass

\* A super_strong password whose first symbol block is itself a separator
\* character: it still carries exactly 6 inserted separators.
C6_Witness ==
  /\ Returned("super_strong")
  /\ blocks[2][1] \in SeparatorClass
  /\ Len(password) = SumLen(blocks, 7) + 6

(* C7: in every output of every tier no two adjacent characters are both   *)
(* separator characters.                                                   *)
C7_NoAdjacentSeparators ==
  pc = "returned" =>
    \A i \in 1..(Len(password) - 1) :
      ~(password[i] \in SeparatorClass /\ password[i + 1] \in SeparatorClass)

(* C8: every digit block of a strong or super_strong password consists     *)
(* only of the characters 0-9 and its length lies in the configured closed *)
(* range (by default 2..6).                                                *)
C8_DigitBlocksInRange ==
  pc = "returned" =>
    \A i \in 1..Len(blocks) :
      Pattern(tier)[i] = "Digits" =>
        /\ DigitsOnly(blocks[i])
        /\ cfg.minDigits <= Len(blocks[i])
        /\ Len(blocks[i]) <= cfg.maxDigits

\* A strong password of the default configuration whose digit blocks take
\* both ends of the range: each occurrence draws its own length.
C8_Witness ==
  /\ Returned("strong")
  /\ cfg = DefaultConfig
  /\ \E i, j \in {2, 4, 6} : Len(blocks[i]) = MinDigits /\ Len(blocks[j]) = MaxDigits

(* C9: with the default configuration every call of the three operations   *)
(* returns a complete password, one non-empty block per position of the    *)
(* tier's pattern, and never ends in an error.                             *)
C9_DefaultConfigTotal ==
  (cfg = DefaultConfig /\ pc # "idle") =>
    /\ pc = "returned"
    /\ error = "none"
    /\ Len(blocks) = Len(Pattern(tier))
    /\ \A i \in 1..Len(blocks) : Len(blocks[i]) > 0
    /\ Len(password) > 0

\* A returned super_strong password of the default configuration.
C9_Witness == cfg = DefaultConfig /\ Returned("super_strong") /\ draws > 0

\* The malformed configurations: a minimum above its maximum, a negative
\* range, an empty character set for a block kind tier t needs.
Malformed(c, t) ==
  \/ c.minSyllables > c.maxSyllables
  \/ c.minDigits > c.maxDigits
  \/ c.minSyllables < 0
  \/ c.minDigits < 0
  \/ (t = "super_strong" /\ c.specials = <<>>)

(* C10: a call with a malformed configuration ends in InvalidConfiguration *)
(* with no draw consumed from the source and no password or partial        *)
(* password returned.                                                      *)
C10_MalformedFailsFast ==
  [][Malformed(cfg, tier') =>
       /\ pc' = "raised"
       /\ error' = "InvalidConfiguration"
       /\ draws' = 0
       /\ pos' = pos
       /\ password' = <<>>
       /\ blocks' = <<>>]_vars

\* Calls rejected for each of the malformed configurations.
C10_Witness ==
  /\ pc = "raised"
  /\ error = "InvalidConfiguration"
  /\ \/ cfg.minDigits > cfg.maxDigits
     \/ cfg.minDigits < 0
     \/ cfg.minSyllables > cfg.maxSyllables
     \/ (tier = "super_strong" /\ cfg.specials = <<>>)

----------------------------------------------------------------------------
(* Concurrent calls. *)

\* The block b is of the kind its position in the pattern asks for.
HasKind(b, kind) ==
  CASE kind = "Word" -> AlphaOnly(b)
    [] kind = "Digits" -> DigitsOnly(b)
    [] kind = "Symbol" -> SpecialOnly(b)

\* What tier t's assembly builds from the draws ds alone.
FromOwnDraws(t, ds) == Assemble(t, DefaultConfig, ds, 0)

\* Call c has returned.
Done(c) == ctl[c].phase = "done"

----------------------------------------------------------------------------
(* The PDF converter. *)

(* C12: convert_to_pdf raises FileNotFoundError whenever the input path    *)
(* does not exist, whatever its extension; no converter is invoked, no     *)
(* output is written and no success message is printed.                    *)
C12_MissingInputRaises ==
  [][ (pdfc'.called /\ pdfc'.input \notin disk) =>
        /\ pdfc'.raised = "FileNotFoundError"
        /\ pdfc'.invoked = <<>>
        /\ disk' = disk
        /\ ~pdfc'.printed ]_vars

\* convert_to_pdf was called on a missing file with a supported extension
\* while other files exist.
C12_Witness ==
  /\ pdfc.op = "convert_to_pdf"
  /\ pdfc.input = <<"a", ".", "m", "d">>
  /\ pdfc.input \notin disk
  /\ disk # {}
  /\ pdfc.raised = "FileNotFoundError"

(* C13: for an input that exists, convert_to_pdf invokes exactly one       *)
(* converter, chosen by the lower-cased extension: .txt gives              *)
(* convert_txt_to_pdf, .md gives convert_md_to_pdf; every other extension  *)
(* raises ValueError 'Unsupported file extension' with no converter        *)
(* invoked, no output written and no success message printed.              *)
C13_DispatchByExtension ==
  [][ (pdfc'.called /\ pdfc'.input \in disk) =>
        IF Lower(Suffix(pdfc'.input)) = DotTxt
        THEN pdfc'.invoked = <<"convert_txt_to_pdf">>
        ELSE IF Lower(Suffix(pdfc'.input)) = DotMd
        THEN pdfc'.invoked = <<"convert_md_to_pdf">>
        ELSE /\ pdfc'.raised = "ValueError"
             /\ pdfc'.message = "Unsupported file extension"
             /\ pdfc'.invoked = <<>>
             /\ disk' = disk
             /\ ~pdfc'.printed ]_vars

\* An existing file with an upper-case extension was converted.
C13_Witness ==
  /\ pdfc.called
  /\ pdfc.input = <<"a", ".", "T", "X", "T">>
  /\ pdfc.invoked = <<"convert_txt_to_pdf">>
  /\ pdfc.printed
  /\ pdfc.output.path \in disk

\* The path p is the path q with its suffix replaced by .pdf.
ReplacesSuffix(p, q) ==
  \E n \in 0..Len(q) :
    /\ SubSeq(q, n + 1, Len(q)) = Suffix(q)
    /\ p = SubSeq(q, 1, n) \o DotPdf

\* The last call was the command, directly or through pocket/cli.py.
IsCommand(call) == call.op \in {"pdf_convert", "pdf_convert_cmd"}

(* C14: pdf_convert converts to the input path with its suffix replaced by *)
(* .pdf when no output is given; when the output's suffix, compared        *)
(* case-insensitively, is not .pdf it aborts before convert_to_pdf is      *)
(* called; and every exception convert_to_pdf raises ends in click.Abort,  *)
(* never in a different exception.                                         *)
C14_CommandAborts ==
  [][ IsCommand(pdfc') =>
        /\ ~pdfc'.given.some =>
              /\ pdfc'.called
              /\ ReplacesSuffix(pdfc'.output.path, pdfc'.input)
        /\ (pdfc'.given.some /\ Lower(Suffix(pdfc'.given.path)) # DotPdf) =>
              /\ ~pdfc'.called
              /\ pdfc'.outcome = "Abort"
              /\ disk' = disk
        /\ pdfc'.called =>
              pdfc'.outcome = (IF pdfc'.raised = "none" THEN "none" ELSE "Abort")
        /\ pdfc'.outcome \in {"none", "Abort"} ]_vars

\* The command, given no output, converted to the default path and the
\* converter failed with an exception none of the named clauses catches.
C14_Witness ==
  /\ pdfc.op = "pdf_convert_cmd"
  /\ ~pdfc.given.some
  /\ pdfc.called
  /\ pdfc.raised = "OSError"
  /\ pdfc.outcome = "Abort"
----------------------------------------------------------------------------
(* The favicon converter. *)

\* The last step was a call of convert_to_favicon that raised exc before
\* any image was opened and wrote nothing.
FailsWith(exc) ==
  /\ favc'.raised = exc
  /\ ~favc'.opened
  /\ favc'.saved = <<>>
  /\ images' = images

\* The six square default sizes.
SixSizes ==
  [i \in 1..6 |-> << <<256, 128, 64, 48, 32, 16>>[i],
                     <<256, 128, 64, 48, 32, 16>>[i] >>]

(* C15 as stated: convert_to_favicon raises FileNotFoundError if the input *)
(* does not exist and ValueError if the output suffix, compared            *)
(* case-insensitively, is not .ico; in both cases no image is opened and   *)
(* nothing is written; with sizes None the six default sizes are used.     *)
C15_Original ==
  [][ favc'.op = "convert_to_favicon" =>
        /\ favc'.input \notin images => FailsWith("FileNotFoundError")
        /\ (favc'.input \in images /\ Lower(Suffix(favc'.output)) # DotIco) =>
              FailsWith("ValueError")
        /\ (favc'.raised = "none" /\ ~favc'.sizes.some) =>
              favc'.saved = SixSizes ]_vars

(* C15 amended: the two checks come after the import of Pillow.  When      *)
(* Pillow cannot be imported convert_to_favicon raises ImportError,        *)
(* whatever the paths; when it can, it raises FileNotFoundError if the     *)
(* input does not exist, and otherwise ValueError if the output suffix,    *)
(* compared case-insensitively, is not .ico.  In all three cases no image  *)
(* is opened and nothing is written; with sizes None the six default       *)
(* sizes are used.                                                         *)
C15_ChecksAfterImport ==
  [][ favc'.op = "convert_to_favicon" =>
        /\ ~pillow => FailsWith("ImportError")
        /\ (pillow /\ favc'.input \notin images) =>
              FailsWith("FileNotFoundError")
        /\ (pillow /\ favc'.input \in images
              /\ Lower(Suffix(favc'.output)) # DotIco) =>
              FailsWith("ValueError")
        /\ (favc'.raised = "none" /\ ~favc'.sizes.some) =>
              favc'.saved = SixSizes ]_vars

\* Pillow cannot be imported and convert_to_favicon was called on a
\* missing input: ImportError, not FileNotFoundError.
C15_Witness ==
  /\ ~pillow
  /\ favc.op = "convert_to_favicon"
  /\ favc.input \notin images
  /\ favc.raised = "ImportError"
----------------------------------------------------------------------------
(* The language identifier. *)

\* The name nm is the last component of path: what follows its last "/".
IsNameOf(nm, path) ==
  /\ \A i \in 1..Len(nm) : nm[i] # "/"
  /\ \E n \in 0..Len(path) :
        /\ SubSeq(path, n + 1, Len(path)) = nm
        /\ (n > 0 => path[n] = "/")

\* The extension of the name nm: from its last dot on, when a character
\* other than a dot precedes that dot; empty otherwise.
ExtensionOf(nm) ==
  IF \E i \in 2..Len(nm) :
       nm[i] = "." /\ \E j \in 1..(i - 1) : nm[j] # "."
  THEN SubSeq(nm, CHOOSE i \in 2..Len(nm) :
                    /\ nm[i] = "."
                    /\ \A j \in (i + 1)..Len(nm) : nm[j] # ".",
              Len(nm))
  ELSE <<>>

\* The values of LANG_MAP.
LangValues == {LANG_MAP[i][2] : i \in 1..Len(LANG_MAP)}

(* C16: get_language_identifier returns LANG_MAP[basename] when the file's *)
(* basename is itself a key of LANG_MAP, otherwise LANG_MAP of the         *)
(* lower-cased extension of the basename, otherwise 'plaintext'; the       *)
(* result is the one the basename alone gets, whatever the directory part, *)
(* and is always a value of LANG_MAP or 'plaintext'.                       *)
C16_LanguageOfBasename ==
  langc.op = "get_language_identifier" =>
    \A nm \in LangNames :
      IsNameOf(nm, langc.filename) =>
        /\ langc.result =
              (IF InLangMap(nm) THEN LangMapGet(nm, "none")
               ELSE IF InLangMap(Lower(ExtensionOf(nm)))
                    THEN LangMapGet(Lower(ExtensionOf(nm)), "none")
                    ELSE "plaintext")
        /\ langc.result = GetLanguageIdentifier(nm)
        /\ langc.result \in LangValues \cup {"plaintext"}

\* 'Dockerfile' was identified under a directory whose name has an
\* extension of its own.
C16_Witness ==
  /\ langc.op = "get_language_identifier"
  /\ langc.filename = <<"a", ".", "p", "y", "/", "D", "o", "c", "k", "e", "r", "f", "i", "l", "e">>
  /\ langc.result = "dockerfile"
----------------------------------------------------------------------------
(* The project exporter. *)

\* The entry e (a tree line or a content section) is excluded: its name is
\* in the exclude set, or the name of a directory that leads to it is.
IsExcluded(e) ==
  \/ e.name \in expc.exclude
  \/ \E k \in 1..Len(e.at) : e.at[k] \in expc.exclude

(* C17: in the project export, no file or directory whose name is in the   *)
(* exclude set, and no file under a directory of the project whose name is *)
(* in the exclude set, appears in the tree generate_tree produces or gets  *)
(* a content section; and every file that gets a content section has its   *)
(* line in the tree.                                                       *)
C17_ExcludedNeverExported ==
  expc.op # "none" =>
    /\ \A i \in 1..Len(expc.lines) : ~IsExcluded(expc.lines[i])
    /\ \A i \in 1..Len(expc.sections) : ~IsExcluded(expc.sections[i])
    /\ \A i \in 1..Len(expc.sections) :
         \E j \in 1..Len(expc.lines) :
           /\ expc.lines[j].kind = "file"
           /\ expc.lines[j].at = expc.sections[i].at
           /\ expc.lines[j].name = expc.sections[i].name

\* A project with a directory lib that holds files, and a file named lib,
\* was exported with lib excluded: sections were written, a directory
\* line was drawn.
C17_Witness ==
  /\ expc.op = "create_codebase_markdown"
  /\ NameLib \in expc.exclude
  /\ <<NameLib>> \in fs.dirs
  /\ <<NameApp, NameLib>> \in fs.dirs
  /\ fs.files = {NamePy, NameLib}
  /\ Len(expc.sections) > 1
  /\ \E j \in 1..Len(expc.lines) : expc.lines[j].kind = "dir"

(* C20: in generate_tree, the level that indents a directory's line and    *)
(* its files equals the directory's depth below root_dir, for every        *)
(* directory tree, those where a nested directory's path contains the root *)
(* path string again included.                                             *)
C20_LevelIsDepth ==
  expc.op # "none" =>
    /\ \A i \in 1..Len(expc.levels) :
         expc.levels[i].level = Len(expc.levels[i].at)
    /\ \A i \in 1..Len(expc.lines) :
         expc.lines[i].level = Len(expc.lines[i].at)

\* The files of the project that cannot be opened or decoded as UTF-8.
CannotBeRead == fs.undecodable \cup fs.unreadable

\* The kinds of the writes of a content section, in the order written.
SectionKinds == <<"separator", "header", "fence", "content", "close">>

\* The writes of the call that belong to content sections.
SectionWrites ==
  SelectSeq(expc.output,
            LAMBDA c : \E j \in 1..Len(SectionKinds) : c.kind = SectionKinds[j])

\* The tree lines of the files that can be read.
ReadableLines ==
  SelectSeq(expc.lines,
            LAMBDA l : l.kind = "file" /\ l.name \notin CannotBeRead)

\* The place of a file name in the sorted order.
RankOf(name) == CHOOSE k \in 1..Len(SortedNames) : SortedNames[k] = name

\* The exporter ran and could open its output file.
Exported ==
  /\ expc.op \in {"create_codebase_markdown", "project_to_file"}
  /\ ~expc.fault

(* C21: in create_codebase_markdown, a file that cannot be opened or       *)
(* decoded as UTF-8 is skipped whole: no write of its section (separator,  *)
(* header, fence, content, closing fence) reaches the output; what was     *)
(* written before it stays, the title and the tree first; every other file *)
(* the walk meets gets its five writes, in the order of the tree and so in *)
(* sorted order within its directory; and the run ends with exit status 0. *)
C21_UnreadableSkippedWhole ==
  Exported =>
    /\ expc.exit = 0
    /\ \A k \in 1..Len(expc.output) :
         expc.output[k].kind \notin {"title", "tree_open", "root", "tree",
                                     "tree_close"}
           => expc.output[k].name \notin CannotBeRead
    /\ Len(expc.output) = Len(expc.lines) + 4 + Len(SectionWrites)
    /\ SubSeq(expc.output, Len(expc.lines) + 5, Len(expc.output)) = SectionWrites
    /\ expc.output[1].kind = "title"
    /\ Len(SectionWrites) = 5 * Len(ReadableLines)
    /\ \A i \in 1..Len(ReadableLines) : \A j \in 1..5 :
         /\ SectionWrites[5 * (i - 1) + j].kind = SectionKinds[j]
         /\ SectionWrites[5 * (i - 1) + j].at = ReadableLines[i].at
         /\ SectionWrites[5 * (i - 1) + j].name = ReadableLines[i].name
    /\ \A i, k \in 1..Len(ReadableLines) :
         (i < k /\ ReadableLines[i].at = ReadableLines[k].at)
           => RankOf(ReadableLines[i].name) < RankOf(ReadableLines[k].name)
    /\ \A i \in 1..Len(expc.lines) :
         (expc.lines[i].kind = "file" /\ expc.lines[i].name \in CannotBeRead)
           => \E k \in 1..Len(expc.skipped) :
                /\ expc.skipped[k].at = expc.lines[i].at
                /\ expc.skipped[k].name = expc.lines[i].name
                /\ expc.skipped[k].printed \in {"warning", "error"}

\* A project whose a.py is not UTF-8 and whose lib can be read was
\* exported from a root with a subdirectory: a.py was skipped with a
\* warning in each directory, and lib, which sorts after it, got its
\* section in each.
C21_Witness ==
  /\ Exported
  /\ expc.op = "create_codebase_markdown"
  /\ fs.files = {NamePy, NameLib}
  /\ fs.undecodable = {NamePy}
  /\ fs.unreadable = {}
  /\ NamePy \notin expc.exclude
  /\ NameLib \notin expc.exclude
  /\ Len(expc.levels) >= 2
  /\ Len(expc.skipped) >= 2
  /\ \A k \in 1..Len(expc.skipped) : expc.skipped[k].printed = "warning"
  /\ Len(expc.sections) >= 2
  /\ Len(SectionWrites) >= 10
  /\ expc.exit = 0
----------------------------------------------------------------------------
(* The blocks of the generator. *)

\* The consonant unit u opens w at index i.
UnitAt(w, i, u) ==
  /\ i + Len(u) - 1 <= Len(w)
  /\ SubSeq(w, i, i + Len(u) - 1) = u

RECURSIVE IsSyllables(_, _, _)
\* w[i..] is the concatenation of exactly n syllables, each a consonant
\* unit of the list followed by a vowel of the list.
IsSyllables(w, i, n) ==
  IF n = 0 THEN i = Len(w) + 1
  ELSE \E c \in 1..Len(Consonants) :
         /\ UnitAt(w, i, Consonants[c])
         /\ i + Len(Consonants[c]) <= Len(w)
         /\ w[i + Len(Consonants[c])] \in Range(Vowels)
         /\ IsSyllables(w, i + Len(Consonants[c]) + 1, n - 1)

\* The Word blocks of the returned password.
WordBlocks ==
  {blocks[i] : i \in {k \in 1..Len(blocks) : Pattern(tier)[k] = "Word"}}

C19_SymbolsApart ==
  pc = "returned" =>
    \A i \in 1..Len(blocks) :
      IF Pattern(tier)[i] = "Symbol"
      THEN /\ Len(blocks[i]) \in MinSymbols..MaxSymbols
           /\ \A k \in 1..Len(blocks[i]) :
                /\ blocks[i][k] \in SpecialCharClass
                /\ blocks[i][k] \notin LetterClass \cup DigitClass
      ELSE \A k \in 1..Len(blocks[i]) : blocks[i][k] \notin SpecialCharClass
====
